---- MODULE Spec2Model ----
(***************************************************************************)
(* The monitoring loop of src/src/detection.py (main), with the risk       *)
(* heuristic and the human detector of src/src/ai_model.py and the alert   *)
(* table of src/src/database.py.                                           *)
(*                                                                         *)
(* Time: time.time() is modelled by an integer clock counting ticks; hz is *)
(* the number of ticks in one second, so a duration of d ticks is d / hz   *)
(* seconds.  Frames are one-row images of BGR pixels.                      *)
(***************************************************************************)
EXTENDS Integers, Sequences, FiniteSets, TLC

\* ------------------------------------------------------------------ bounds
MaxFrames == 62      \* loop iterations explored by Spec
MaxClock == 11       \* largest clock value (ticks) explored by Spec
MaxAlerts == 3       \* rows of the alerts table explored by Spec
MaxHumans == 2       \* largest number of detections the YOLO backend returns
MaxDbClock == 2      \* largest clock value (seconds) explored by DbSpec
PixelWidth == 3      \* pixels of a frame explored by PixelSpec
MaxPairFrames == 30  \* loop iterations of each call of main() explored by PairSpec
MaxPairClock == 22   \* largest clock value (ticks) explored by PairSpec

\* ------------------------------------------------------- program constants
SampleInterval == 30     \* detection.py:82   frame_count % 30
AlertSeconds == 10       \* ai_model.py:72    time_without_motion > 10
MotionThreshold == 25    \* detection.py:28   cv2.threshold(diff, 25, ...)
MaxVal == 255            \* detection.py:28   cv2.threshold(..., 255, ...)
DilateIterations == 2    \* detection.py:31   cv2.dilate(..., iterations=2)
FPS == 30                \* detection.py:81   "~1 second at 30fps"

\* the four strings analyze_drowning_risk returns
NO_SUBJECT == "No human detected"
ACTIVE == "Active - Normal swimming"
ALERT == "ALERT: Potential drowning - No motion detected"
MONITORING == "Monitoring - Minimal motion"

VARIABLES
    pc,                  \* position of main(): start, loop, hung, stopped, returned, raised
    exc,                 \* the exception that ended main(), or "none"
    sound,               \* SOUND_AVAILABLE: winsound could be imported
    cap,                 \* the cv2.VideoCapture: closed, open, released
    backend,             \* ai_model's import-time choice: yolo, tf, none
    hz,                  \* clock ticks per second
    clock,               \* the value time.time() returns, in ticks
    frame1, frame2,      \* the two frames main() holds
    last_motion_time,    \* main()'s local
    frame_count,         \* main()'s local
    human_present,       \* main()'s local
    motion,              \* main()'s local, of the last iteration
    time_without_motion, \* main()'s local, of the last iteration (ticks)
    risk_status,         \* main()'s local, of the last iteration
    alerts,              \* rows of table alerts, in insertion order
    detector_calls,      \* history: calls of detect_humans_in_frame so far
    last_sample,         \* history: what the last detector call returned to main()
    last_ok,             \* history: what the last detector call that did not raise returned
    notified,            \* history: the winsound.Beep of the last iteration: none, ok, failed
    recent,              \* what the last get_recent_alerts call returned, with its limit
    human_count,         \* main()'s local, of the last detector call (0 while unbound)
    quit,                \* history: waitKey returned 'q' at line 115
    alert_iterations,    \* history: iterations whose status was the ALERT one
    delivered,           \* history: frames cap.read() has delivered
    seq1, seq2,          \* history: positions in the stream of frame1 and frame2 (0: none)
    peer,                \* the locals of a second call of main(), run side by side
    alone,               \* history: the locals and the table of main() run without the second call
    emitter              \* history: which call of main() wrote each row of alerts

vars == <<pc, exc, sound, notified, recent, cap, backend, hz, clock, frame1, frame2, last_motion_time,
          frame_count, human_present, motion, time_without_motion,
          risk_status, alerts, detector_calls, last_sample, last_ok,
          human_count, quit, alert_iterations, delivered, seq1, seq2,
          peer, alone, emitter>>

\* the variables of the second call of main()
pairing == <<peer, alone, emitter>>

\* ------------------------------------------------------------------ frames
Abs(x) == IF x < 0 THEN -x ELSE x

Max2(a, b) == IF a >= b THEN a ELSE b

\* a grey BGR pixel of intensity v
Grey(v) == <<v, v, v>>

\* cap.read() returned (False, None)
NoFrame == <<>>

Still == <<Grey(0), Grey(0)>>

Moved == <<Grey(0), Grey(MotionThreshold + 1)>>

\* the frames the frame source delivers in this model
FrameSet == {Still, Moved}

\* a frame of another size than those of FrameSet
Short == <<Grey(0)>>

\* the frame pairs detect_motion raises cv2.error on: cvtColor of None, absdiff
\* of images of different sizes
Malformed(f1, f2) == f1 = NoFrame \/ f2 = NoFrame \/ Len(f1) # Len(f2)

\* cv2.cvtColor(frame, cv2.COLOR_BGR2GRAY): Y = 0.114 B + 0.587 G + 0.299 R, rounded
cvtColor(frame) ==
    [i \in DOMAIN frame |->
        (114 * frame[i][1] + 587 * frame[i][2] + 299 * frame[i][3] + 500) \div 1000]

\* cv2.absdiff
absdiff(g1, g2) == [i \in DOMAIN g1 |-> Abs(g1[i] - g2[i])]

\* (variant: THRESH_BINARY_INV)
threshold_inv(diff) == [i \in DOMAIN diff |-> IF diff[i] > MotionThreshold THEN 0 ELSE MaxVal]

\* (variant: the threshold value itself passes)
threshold_ge(diff) == [i \in DOMAIN diff |-> IF diff[i] >= MotionThreshold THEN MaxVal ELSE 0]

\* cv2.threshold(diff, 25, 255, cv2.THRESH_BINARY)[1]
threshold(diff) == [i \in DOMAIN diff |-> IF diff[i] > MotionThreshold THEN MaxVal ELSE 0]

Min2(a, b) == IF a <= b THEN a ELSE b

\* (variant: one pass of cv2.erode)
erode1(img) ==
    [i \in DOMAIN img |->
        Min2(img[i], Min2(IF i - 1 \in DOMAIN img THEN img[i - 1] ELSE MaxVal,
                          IF i + 1 \in DOMAIN img THEN img[i + 1] ELSE MaxVal))]

\* one pass of cv2.dilate with the default 3x3 kernel, on a one-row image
dilate1(img) ==
    [i \in DOMAIN img |->
        Max2(img[i], Max2(IF i - 1 \in DOMAIN img THEN img[i - 1] ELSE 0,
                          IF i + 1 \in DOMAIN img THEN img[i + 1] ELSE 0))]

RECURSIVE dilate(_, _)
dilate(img, iterations) ==
    IF iterations = 0 THEN img ELSE dilate(dilate1(img), iterations - 1)

\* len(cv2.findContours(..., RETR_EXTERNAL, ...)[0]): the maximal runs of set pixels
findContours(img) ==
    Cardinality({i \in DOMAIN img :
                    img[i] # 0 /\ (i - 1 \notin DOMAIN img \/ img[i - 1] = 0)})

detect_motion(f1, f2) ==
    LET diff == absdiff(cvtColor(f1), cvtColor(f2))
        thresh == dilate(threshold(diff), DilateIterations)
    IN  findContours(thresh) > 0

\* ---------------------------------------------------------------- detector
\* What the backend does with one frame: it returns a number of detections,
\* or an exception is raised inside it.
Found(n) == <<"ok", n>>

Raise == <<"raise", 0>>

Outcomes(b) ==
    CASE b = "yolo" -> {Found(n) : n \in 0 .. MaxHumans} \cup {Raise}
      [] b = "tf" -> {Found(0), Found(1), Raise}
      [] OTHER -> {Found(0)}

\* (variant: without a backend a human is assumed, as the comment at line 54 says)
detect_humans_in_frame_assume(b, out) ==
    IF b = "none" THEN 1
    ELSE IF out = Raise THEN 0
    ELSE out[2]

\* detect_humans_in_frame: the count it returns for a backend outcome; an
\* exception inside the try block is caught and (0, []) returned
detect_humans_in_frame(b, out) ==
    IF b = "none" THEN 0
    ELSE IF out = Raise THEN 0
    ELSE out[2]

\* ------------------------------------------------------------------- risk
\* (variants of analyze_drowning_risk: motion tested before presence; presence
\* tested after the elapsed time; the threshold included)
analyze_drowning_risk_motion_first(hp, motion_detected, twm, tps) ==
    IF motion_detected THEN ACTIVE
    ELSE IF ~hp THEN NO_SUBJECT
    ELSE IF twm > AlertSeconds * tps THEN ALERT
    ELSE MONITORING

analyze_drowning_risk_presence_last(hp, motion_detected, twm, tps) ==
    IF motion_detected THEN (IF hp THEN ACTIVE ELSE NO_SUBJECT)
    ELSE IF twm > AlertSeconds * tps THEN ALERT
    ELSE IF hp THEN MONITORING
    ELSE NO_SUBJECT

analyze_drowning_risk_ge(hp, motion_detected, twm, tps) ==
    IF ~hp THEN NO_SUBJECT
    ELSE IF motion_detected THEN ACTIVE
    ELSE IF twm >= AlertSeconds * tps THEN ALERT
    ELSE MONITORING

\* twm is in ticks, tps ticks to the second: twm / tps > 10
analyze_drowning_risk(hp, motion_detected, twm, tps) ==
    IF ~hp THEN NO_SUBJECT
    ELSE IF motion_detected THEN ACTIVE
    ELSE IF twm > AlertSeconds * tps THEN ALERT
    ELSE MONITORING

\* (variant: every status that is not a normal one)
ContainsALERT_abnormal(s) == s \in {ALERT, MONITORING}

\* "ALERT" in risk_status
ContainsALERT(s) == s = ALERT

\* -------------------------------------------------------------- alerts table
\* f"{time_without_motion:.1f}": tenths of a second, rounded
Tenths(twm, tps) == (20 * twm + tps) \div (2 * tps)

\* (variant: the new row put before the stored ones)
log_alert_front(rows, now, tps, alert_type, details) ==
    <<[id |-> Len(rows) + 1,
       timestamp |-> now \div tps,
       alert_type |-> alert_type,
       details |-> details]>> \o rows

\* log_alert: one row appended; id is AUTOINCREMENT, timestamp CURRENT_TIMESTAMP
log_alert(rows, now, tps, alert_type, details) ==
    Append(rows, [id |-> Len(rows) + 1,
                  timestamp |-> now \div tps,
                  alert_type |-> alert_type,
                  details |-> details])

\* the stored rows in some order, as sequences
Orders(rows) ==
    {q \in [1 .. Len(rows) -> {rows[i] : i \in 1 .. Len(rows)}] :
        \A i, j \in 1 .. Len(rows) : i # j => q[i] # q[j]}

\* get_recent_alerts: SELECT * FROM alerts ORDER BY timestamp DESC LIMIT ?;
\* the results SQLite may return: rows of equal timestamp come in no
\* guaranteed order
get_recent_alerts(rows, limit) ==
    {SubSeq(q, 1, Min2(limit, Len(rows))) :
        q \in {o \in Orders(rows) :
                  \A i \in 1 .. Len(rows) - 1 : o[i].timestamp >= o[i + 1].timestamp}}

\* ------------------------------------------------------------------- main()
\* no call of main() has been made
NoMonitor == [pc |-> "start"]

\* the state before main() runs: the modules imported in one of the
\* configurations cfgs (a detector backend, SOUND_AVAILABLE), a clock of h
\* ticks to the second, the alerts table empty
Boot(cfgs, h) ==
    /\ pc = "start"
    /\ exc = "none"
    /\ cap = "closed"
    /\ \E c \in cfgs : backend = c[1] /\ sound = c[2]
    /\ hz = h
    /\ clock = 0
    /\ frame1 = NoFrame
    /\ frame2 = NoFrame
    /\ last_motion_time = 0
    /\ frame_count = 0
    /\ human_present = FALSE
    /\ motion = FALSE
    /\ time_without_motion = 0
    /\ risk_status = ""
    /\ alerts = <<>>
    /\ detector_calls = 0
    /\ last_sample = "none"
    /\ last_ok = "none"
    /\ notified = "none"
    /\ recent = [limit |-> 0, rows |-> <<>>]
    /\ human_count = 0
    /\ quit = FALSE
    /\ alert_iterations = 0
    /\ delivered = 0
    /\ seq1 = 0
    /\ seq2 = 0
    /\ peer = NoMonitor
    /\ alone = NoMonitor
    /\ emitter = <<>>

\* the installations explored
Configs == {<<"yolo", TRUE>>, <<"tf", FALSE>>, <<"none", TRUE>>}

Init == Boot(Configs, 1)

\* lines 46-69: open the capture, read two frames, initialise the locals;
\* r2 is what the second cap.read() delivers
Begin(f1, r2) ==
    /\ pc = "start"
    /\ cap' = "open"
    /\ frame1' = f1
    /\ frame2' = r2
    /\ IF r2 = NoFrame
       THEN /\ pc' = "returned"
            /\ UNCHANGED <<last_motion_time, frame_count, human_present>>
       ELSE /\ pc' = "loop"
            /\ last_motion_time' = clock
            /\ frame_count' = 0
            /\ human_present' = FALSE
    /\ delivered' = (IF f1 = NoFrame THEN 0 ELSE 1) + (IF r2 = NoFrame THEN 0 ELSE 1)
    /\ seq1' = IF f1 = NoFrame THEN 0 ELSE 1
    /\ seq2' = IF r2 = NoFrame THEN 0 ELSE delivered'
    /\ UNCHANGED <<exc, sound, notified, recent, backend, hz, clock, motion,
                   time_without_motion, risk_status, alerts, detector_calls,
                   last_sample, last_ok, human_count, quit, alert_iterations>>

\* (variant: the test on the 0-based index of the iteration)
Sampled_zero_based(fc) == (fc - 1) % SampleInterval = 0

\* line 82: the sampling test, on the counter already incremented
Sampled(fc) == fc % SampleInterval = 0

\* (variant: presence cleared on the frames that are not sampled)
Presence_reset(fc, hp, count) == IF Sampled(fc) THEN count > 0 ELSE FALSE

\* lines 82-84: human_present after the sampling block
Presence(fc, hp, count) == IF Sampled(fc) THEN count > 0 ELSE hp

\* lines 95-96: the alerts table after the logging block
Logged(rows, rs, twm, now, tps) ==
    IF ContainsALERT(rs)
    THEN log_alert(rows, now, tps, "DROWNING_ALERT",
                   [status |-> rs, seconds10 |-> Tenths(twm, tps)])
    ELSE rows

Kind(count) == IF count > 0 THEN "present" ELSE "absent"

\* (variant: the motion clock is reset only while a human is present)
MotionTime_present(m, hp, now, lmt) == IF m /\ hp THEN now ELSE lmt

\* lines 78-79: last_motion_time after the motion test; hp is human_present
\* as it stands at that line
MotionTime(m, hp, now, lmt) == IF m THEN now ELSE lmt

\* lines 72-92 of an iteration whose calls all return: dt1 ticks pass before
\* the clock is read at line 79, dt2 during the detector call; out is what the
\* backend does if called.
Analyse(dt1, dt2, out) ==
    /\ pc = "loop"
    /\ cap = "open"
    /\ ~Malformed(frame1, frame2)
    /\ frame_count' = frame_count + 1
    /\ motion' = detect_motion(frame1, frame2)
    /\ last_motion_time' = MotionTime(motion', human_present, clock + dt1, last_motion_time)
    /\ IF Sampled(frame_count')
       THEN /\ detector_calls' = detector_calls + 1
            /\ human_count' = detect_humans_in_frame(backend, out)
            /\ last_sample' = Kind(human_count')
            /\ last_ok' = IF out = Raise THEN last_ok ELSE last_sample'
            /\ clock' = clock + dt1 + dt2
       ELSE /\ clock' = clock + dt1
            /\ UNCHANGED <<detector_calls, human_count, last_sample, last_ok>>
    /\ human_present' = Presence(frame_count', human_present, human_count')
    /\ time_without_motion' = clock' - last_motion_time'
    /\ risk_status' =
           analyze_drowning_risk(human_present', motion', time_without_motion', hz)
    /\ alert_iterations' = alert_iterations + (IF ContainsALERT(risk_status') THEN 1 ELSE 0)

\* (variant: the beep outside any try block)
Beep_unguarded(available, b) ==
    IF available /\ b = "raise" THEN "RuntimeError" ELSE "none"

\* lines 98-102: the exception that leaves the sound block when winsound.Beep
\* does b (ok, raise): the bare except swallows it
Beep(available, b) == "none"

\* lines 94-102: w is what the INSERT of log_alert does (ok, raise), b what
\* winsound.Beep does.  log_alert is called outside any try block.
Report(w, b) ==
    IF ~ContainsALERT(risk_status')
    THEN alerts' = alerts /\ notified' = "none" /\ exc' = "none"
    ELSE IF w = "raise"
    THEN alerts' = alerts /\ notified' = "none" /\ exc' = "sqlite3.Error"
    ELSE /\ alerts' = Logged(alerts, risk_status', time_without_motion', clock', hz)
         /\ notified' = IF ~sound THEN "none" ELSE IF b = "raise" THEN "failed" ELSE "ok"
         /\ exc' = Beep(sound, b)

\* (variant: the frame kept, not replaced by its successor)
Shifted_stale(f1, f2) == f1

\* line 108: frame1 = frame2
Shifted(f1, f2) == f2

\* (variant: the key is not looked at)
Break_deaf(r, key) == r = NoFrame

\* lines 111-116: the loop is left when the read fails or waitKey sees 'q'
Break(r, key) == r = NoFrame \/ key

\* lines 104-121: r is what cap.read() delivers at line 109 and key whether
\* waitKey sees 'q'.  When the loop is left main() releases the capture and
\* returns, and its frames are dropped; an exception raised before leaves
\* main() at once.
Advance(r, key) ==
    IF exc' # "none"
    THEN /\ pc' = "raised"
         /\ UNCHANGED <<cap, frame1, frame2, quit, delivered, seq1, seq2>>
    ELSE /\ delivered' = delivered + (IF r = NoFrame THEN 0 ELSE 1)
         /\ quit' = (r # NoFrame /\ key)
         /\ IF Break(r, key)
            THEN /\ pc' = "stopped"
                 /\ cap' = "released"
                 /\ frame1' = NoFrame
                 /\ frame2' = NoFrame
                 /\ seq1' = 0
                 /\ seq2' = 0
            ELSE /\ pc' = "loop"
                 /\ cap' = cap
                 /\ frame1' = Shifted(frame1, frame2)
                 /\ frame2' = r
                 /\ seq1' = Shifted(seq1, seq2)
                 /\ seq2' = delivered'

\* lines 72-116: one iteration of the while loop
Iterate(dt1, dt2, out, w, b, r, key) ==
    /\ Analyse(dt1, dt2, out)
    /\ Report(w, b)
    /\ Advance(r, key)
    /\ UNCHANGED <<backend, hz, sound, recent>>

\* lines 72-75: detect_motion raises on the frame pair; nothing catches it
InputError ==
    /\ pc = "loop"
    /\ cap = "open"
    /\ Malformed(frame1, frame2)
    /\ frame_count' = frame_count + 1
    /\ exc' = "cv2.error"
    /\ pc' = "raised"
    /\ UNCHANGED <<sound, notified, recent, cap, backend, hz, clock, frame1, frame2,
                   last_motion_time, human_present, motion, time_without_motion,
                   risk_status, alerts, detector_calls, last_sample, last_ok,
                   human_count, quit, alert_iterations, delivered, seq1, seq2>>

\* lines 72-83: the backend called at line 83 never returns; the call is made
\* without a timeout
Hang(dt1) ==
    /\ pc = "loop"
    /\ cap = "open"
    /\ ~Malformed(frame1, frame2)
    /\ backend # "none"
    /\ Sampled(frame_count + 1)
    /\ frame_count' = frame_count + 1
    /\ motion' = detect_motion(frame1, frame2)
    /\ last_motion_time' = MotionTime(motion', human_present, clock + dt1, last_motion_time)
    /\ clock' = clock + dt1
    /\ detector_calls' = detector_calls + 1
    /\ pc' = "hung"
    /\ UNCHANGED <<exc, sound, notified, recent, cap, backend, hz, frame1, frame2,
                   human_present, time_without_motion, risk_status, alerts,
                   last_sample, last_ok, human_count, quit, alert_iterations,
                   delivered, seq1, seq2>>

\* what a cap.read() may deliver
Reads == FrameSet \cup {Short, NoFrame}

Start ==
    /\ \E f1 \in FrameSet \cup {NoFrame}, r2 \in FrameSet \cup {NoFrame} : Begin(f1, r2)
    /\ UNCHANGED pairing

Step ==
    /\ frame_count < MaxFrames
    /\ \E dt1 \in 0 .. 1 :
         \E dt2 \in (IF Sampled(frame_count + 1) THEN 0 .. 1 ELSE {0}),
            out \in (IF Sampled(frame_count + 1) THEN Outcomes(backend) ELSE {Found(0)}) :
            /\ clock + dt1 + dt2 <= MaxClock
            /\ Analyse(dt1, dt2, out)
            /\ \E w \in (IF ContainsALERT(risk_status') THEN {"ok", "raise"} ELSE {"ok"}) :
                 \E b \in (IF ContainsALERT(risk_status') /\ sound /\ w = "ok"
                           THEN {"ok", "raise"} ELSE {"ok"}) :
                    /\ Report(w, b)
                    /\ Len(alerts') <= MaxAlerts
                    /\ \E r \in (IF exc' = "none" THEN Reads ELSE {NoFrame}) :
                         \E key \in (IF r = NoFrame THEN {FALSE} ELSE BOOLEAN) :
                            Advance(r, key)
            /\ UNCHANGED <<backend, hz, sound, recent>>
            /\ UNCHANGED pairing

Fault == frame_count < MaxFrames /\ InputError /\ UNCHANGED pairing

Stall ==
    /\ frame_count < MaxFrames
    /\ \E dt1 \in 0 .. 1 : clock + dt1 <= MaxClock /\ Hang(dt1)
    /\ UNCHANGED pairing

Next == Start \/ Step \/ Fault \/ Stall

Spec == Init /\ [][Next]_vars

\* ------------------------------------------------- the 30 fps scenario runs
\* A human is in every frame, the frame source delivers one frame per tick of
\* a 30-tick clock, and the frames change up to iteration LastMotionFrame only.
\* Iteration k (k = 0, 1, ...) is the one that diffs frames k and k + 1.
LastMotionFrame == 3 * FPS - 1

ShortRun == 10 * FPS

LongRun == 15 * FPS

FirstAlertFrame == 13 * FPS

Flip(f) == IF f = Still THEN Moved ELSE Still

ScenarioInit == Boot({<<"yolo", TRUE>>}, FPS)

ScenarioStart == Begin(Still, Moved) /\ UNCHANGED pairing

ScenarioStep(n) ==
    /\ frame_count < n
    /\ Iterate(1, 0, Found(1), "ok", "ok",
               IF frame_count + 1 >= n THEN NoFrame
               ELSE IF frame_count + 1 <= LastMotionFrame THEN Flip(frame2)
               ELSE frame2,
               FALSE)
    /\ UNCHANGED pairing

ShortStep == ScenarioStep(ShortRun)

LongStep == ScenarioStep(LongRun)

Scenario300 == ScenarioInit /\ [][ScenarioStart \/ ShortStep]_vars

Scenario450 == ScenarioInit /\ [][ScenarioStart \/ LongStep]_vars


\* ------------------------------------------- two calls of main() side by side
\* main() is called twice (two camera feeds), the iterations of the two calls
\* interleaved in any order.  The calls share what the modules hold (the
\* backend, SOUND_AVAILABLE), the clock and the alerts table; the first call
\* is the one of the variables above, the second has its locals in peer, and
\* alone is the first call run by itself on the same frames, detector
\* outcomes and clock readings.

\* the locals of a call of main() after lines 46-69, read at time now
Locals(f1, f2, now) ==
    [pc |-> "loop", now |-> now, frame1 |-> f1, frame2 |-> f2,
     last_motion_time |-> now, frame_count |-> 0, human_present |-> FALSE,
     time_without_motion |-> 0, risk_status |-> ""]

\* lines 72-116 on the locals m of one call, as Analyse and Advance have them
Iteration(m, b, tps, now, dt1, dt2, out, r, key) ==
    LET fc == m.frame_count + 1
        mo == detect_motion(m.frame1, m.frame2)
        lmt == MotionTime(mo, m.human_present, now + dt1, m.last_motion_time)
        hp == Presence(fc, m.human_present, detect_humans_in_frame(b, out))
        end == now + dt1 + (IF Sampled(fc) THEN dt2 ELSE 0)
    IN  [pc |-> IF Break(r, key) THEN "stopped" ELSE "loop",
         now |-> end,
         frame1 |-> IF Break(r, key) THEN NoFrame ELSE Shifted(m.frame1, m.frame2),
         frame2 |-> IF Break(r, key) THEN NoFrame ELSE r,
         last_motion_time |-> lmt,
         frame_count |-> fc,
         human_present |-> hp,
         time_without_motion |-> end - lmt,
         risk_status |-> analyze_drowning_risk(hp, mo, end - lmt, tps)]

\* (variant: the tracking variables are module-level globals, one for all calls)
Kept_global(mine, theirs) == theirs

\* lines 66-69: last_motion_time, frame_count and human_present are locals of
\* main(): what a call holds (mine) after the other call has assigned its own
\* (theirs)
Kept(mine, theirs) == mine

\* a detector call that takes longer than the alert threshold, in ticks
SlowCall == AlertSeconds + 1

\* the tags of the rows appended by a step of the call who
Tagged(who) ==
    emitter' = IF Len(alerts') > Len(alerts) THEN Append(emitter, who) ELSE emitter

PairInit == Boot({<<"yolo", TRUE>>}, 1)

\* the first call starts
PairBegin ==
    /\ \E r2 \in FrameSet :
         /\ Begin(Still, r2)
         /\ alone' = [m |-> Locals(Still, r2, clock), alerts |-> <<>>]
    /\ peer' = (IF peer.pc = "start" THEN peer
                ELSE [peer EXCEPT !.last_motion_time = Kept(@, last_motion_time'),
                                  !.frame_count = Kept(@, frame_count'),
                                  !.human_present = Kept(@, human_present')])
    /\ UNCHANGED emitter

\* the second call starts
PeerBegin ==
    /\ peer.pc = "start"
    /\ \E r2 \in FrameSet : peer' = Locals(Still, r2, clock)
    /\ last_motion_time' = Kept(last_motion_time, peer'.last_motion_time)
    /\ frame_count' = Kept(frame_count, peer'.frame_count)
    /\ human_present' = Kept(human_present, peer'.human_present)
    /\ UNCHANGED <<pc, exc, sound, notified, recent, cap, backend, hz, clock, frame1,
                   frame2, motion, time_without_motion, risk_status, alerts,
                   detector_calls, last_sample, last_ok, human_count, quit,
                   alert_iterations, delivered, seq1, seq2, alone, emitter>>

\* an iteration of the first call
PairStep ==
    /\ frame_count < MaxPairFrames
    /\ \E dt2 \in (IF Sampled(frame_count + 1) THEN {0, SlowCall} ELSE {0}),
          out \in (IF Sampled(frame_count + 1) THEN {Found(0), Found(1)} ELSE {Found(0)}),
          r \in FrameSet \cup {NoFrame} :
          /\ clock + dt2 <= MaxPairClock
          /\ Iterate(0, dt2, out, "ok", "ok", r, FALSE)
          /\ alone' =
                LET n == Iteration(alone.m, backend, hz, clock, 0, dt2, out, r, FALSE)
                IN  [m |-> n,
                     alerts |-> Logged(alone.alerts, n.risk_status,
                                       n.time_without_motion, n.now, hz)]
    /\ Tagged("first")
    /\ peer' = (IF peer.pc = "start" THEN peer
                ELSE [peer EXCEPT !.last_motion_time = Kept(@, last_motion_time'),
                                  !.frame_count = Kept(@, frame_count'),
                                  !.human_present = Kept(@, human_present')])

\* an iteration of the second call
PeerStep ==
    /\ peer.pc = "loop"
    /\ peer.frame_count < MaxPairFrames
    /\ \E dt2 \in (IF Sampled(peer.frame_count + 1) THEN {0, SlowCall} ELSE {0}),
          out \in (IF Sampled(peer.frame_count + 1) THEN {Found(0), Found(1)}
                   ELSE {Found(0)}),
          r \in FrameSet \cup {NoFrame} :
          /\ clock + dt2 <= MaxPairClock
          /\ peer' = Iteration(peer, backend, hz, clock, 0, dt2, out, r, FALSE)
    /\ clock' = peer'.now
    /\ alerts' = Logged(alerts, peer'.risk_status, peer'.time_without_motion, clock', hz)
    /\ Tagged("second")
    /\ last_motion_time' = Kept(last_motion_time, peer'.last_motion_time)
    /\ frame_count' = Kept(frame_count, peer'.frame_count)
    /\ human_present' = Kept(human_present, peer'.human_present)
    /\ UNCHANGED <<pc, exc, sound, notified, recent, cap, backend, hz, frame1, frame2,
                   motion, time_without_motion, risk_status, detector_calls,
                   last_sample, last_ok, human_count, quit, alert_iterations,
                   delivered, seq1, seq2, alone>>

PairSpec == PairInit /\ [][PairBegin \/ PeerBegin \/ PairStep \/ PeerStep]_vars

\* ------------------------------------------------- the alerts table by itself
\* database.py used as its __main__ block and view_alerts use it: rows are
\* logged as the clock (in seconds) advances, and the recent rows are queried.
DbInit ==
    /\ pc = "db"
    /\ exc = "none"
    /\ sound = FALSE
    /\ cap = "closed"
    /\ backend = "none"
    /\ hz = 1
    /\ clock = 0
    /\ frame1 = NoFrame
    /\ frame2 = NoFrame
    /\ last_motion_time = 0
    /\ frame_count = 0
    /\ human_present = FALSE
    /\ motion = FALSE
    /\ time_without_motion = 0
    /\ risk_status = ""
    /\ alerts = <<>>
    /\ detector_calls = 0
    /\ last_sample = "none"
    /\ last_ok = "none"
    /\ notified = "none"
    /\ recent = [limit |-> 0, rows |-> <<>>]
    /\ human_count = 0
    /\ quit = FALSE
    /\ alert_iterations = 0
    /\ delivered = 0
    /\ seq1 = 0
    /\ seq2 = 0
    /\ peer = NoMonitor
    /\ alone = NoMonitor
    /\ emitter = <<>>

DbUnchanged ==
    UNCHANGED <<pc, exc, sound, notified, cap, backend, hz, frame1, frame2,
                last_motion_time, frame_count, human_present, motion,
                time_without_motion, risk_status, detector_calls, last_sample, last_ok,
                human_count, quit, alert_iterations, delivered, seq1, seq2,
                peer, alone, emitter>>

\* a second passes
DbTick ==
    /\ pc = "db"
    /\ clock < MaxDbClock
    /\ clock' = clock + 1
    /\ UNCHANGED <<alerts, recent>>
    /\ DbUnchanged

\* log_alert("TEST", "Database test alert")
DbLog ==
    /\ pc = "db"
    /\ Len(alerts) < MaxAlerts
    /\ alerts' = log_alert(alerts, clock, hz, "TEST", "Database test alert")
    /\ UNCHANGED <<clock, recent>>
    /\ DbUnchanged

\* get_recent_alerts(limit)
DbQuery ==
    /\ pc = "db"
    /\ \E limit \in 0 .. MaxAlerts :
         \E rows \in get_recent_alerts(alerts, limit) :
            recent' = [limit |-> limit, rows |-> rows]
    /\ UNCHANGED <<clock, alerts>>
    /\ DbUnchanged

DbSpec == DbInit /\ [][DbTick \/ DbLog \/ DbQuery]_vars

\* ------------------------------------------------- detect_motion by itself
\* a pixel that is not grey: B = 200, G = R = 0
Blue == <<200, 0, 0>>

Pixels == {Grey(0), Grey(MotionThreshold), Grey(MotionThreshold + 1), Blue}

PixelFrames == [1 .. PixelWidth -> Pixels]

PixelInit ==
    /\ pc = "diff"
    /\ exc = "none"
    /\ sound = FALSE
    /\ cap = "closed"
    /\ backend = "none"
    /\ hz = 1
    /\ clock = 0
    /\ frame1 \in PixelFrames
    /\ frame2 \in PixelFrames
    /\ last_motion_time = 0
    /\ frame_count = 0
    /\ human_present = FALSE
    /\ motion = FALSE
    /\ time_without_motion = 0
    /\ risk_status = ""
    /\ alerts = <<>>
    /\ detector_calls = 0
    /\ last_sample = "none"
    /\ last_ok = "none"
    /\ notified = "none"
    /\ recent = [limit |-> 0, rows |-> <<>>]
    /\ human_count = 0
    /\ quit = FALSE
    /\ alert_iterations = 0
    /\ delivered = 0
    /\ seq1 = 0
    /\ seq2 = 0
    /\ peer = NoMonitor
    /\ alone = NoMonitor
    /\ emitter = <<>>

\* motion_detected, _ = detect_motion(frame1, frame2)
Diff ==
    /\ pc = "diff"
    /\ motion' = detect_motion(frame1, frame2)
    /\ pc' = "diffed"
    /\ UNCHANGED <<exc, sound, notified, recent, cap, backend, hz, clock, frame1,
                   frame2, last_motion_time, frame_count, human_present,
                   time_without_motion, risk_status, alerts, detector_calls,
                   last_sample, last_ok, human_count, quit, alert_iterations,
                   delivered, seq1, seq2, peer, alone, emitter>>

PixelSpec == PixelInit /\ [][Diff]_vars

\* ------------------------------------------------------------------ claims
\* at least one iteration has run, and the last one computed its level:
\* motion, time_without_motion and risk_status are those of the last iteration
Iterated == frame_count > 0 /\ pc # "hung" /\ exc # "cv2.error"

\* a step that is one iteration of the loop, in which the level was computed
IsIteration == frame_count' = frame_count + 1 /\ pc' # "hung" /\ exc' # "cv2.error"

Threshold == AlertSeconds * hz

\* C1 (as claimed): an alert row is appended in an iteration exactly when the
\* level enters ALERT from a level that is not ALERT, so one row per unbroken
\* ALERT episode.
C1_OneAlertPerEpisode ==
    [][IsIteration =>
         Len(alerts') = Len(alerts)
                        + (IF risk_status' = ALERT /\ risk_status # ALERT THEN 1 ELSE 0)]_vars

\* C2 (as claimed): with a human present and no motion on the frame, the level
\* is ALERT iff the time without motion is at least the threshold.
C2_AlertIffAtLeastThreshold ==
    (Iterated /\ human_present /\ ~motion) =>
        (risk_status = ALERT <=> time_without_motion >= Threshold)

\* C2 (amended): with a human present and no motion on the frame, the level is
\* ALERT iff the time without motion is strictly greater than the threshold,
\* and MONITORING otherwise; at exactly the threshold it is MONITORING.
C2_AlertIffAboveThreshold ==
    (Iterated /\ human_present /\ ~motion) =>
        /\ risk_status = ALERT <=> time_without_motion > Threshold
        /\ risk_status = MONITORING <=> time_without_motion <= Threshold

C2_Witness ==
    /\ Iterated /\ human_present /\ ~motion
    /\ time_without_motion = Threshold
    /\ risk_status = MONITORING

\* C3 (as claimed): human_present is the value of the last detector call that
\* did not fail; a failing call records nothing.
C3_FailOpen == human_present = (last_ok = "present")

\* C4 (as claimed): in the 450-iteration run the level is not ALERT before
\* iteration 390, is ALERT from iteration 390 on, and exactly one alert row
\* exists from then on.
C4_OneAlertAtFrame390 ==
    Iterated =>
        IF frame_count - 1 < FirstAlertFrame
        THEN risk_status # ALERT /\ Len(alerts) = 0
        ELSE risk_status = ALERT /\ Len(alerts) = 1

\* C5 (as claimed): in the 300-iteration run the level is ACTIVE on iterations
\* 0..89 and MONITORING on iterations 90..299, and no alert row is written.
C5_ActiveThenMonitoring ==
    Iterated =>
        /\ risk_status = (IF frame_count - 1 <= LastMotionFrame THEN ACTIVE ELSE MONITORING)
        /\ alerts = <<>>

\* C6 (as claimed): the detector is called in an iteration iff the 0-based
\* index of the iteration is a multiple of the sample interval.
C6_SampledIffIndexMultiple ==
    [][IsIteration =>
         /\ detector_calls' \in {detector_calls, detector_calls + 1}
         /\ detector_calls' = detector_calls + 1 <=> frame_count % SampleInterval = 0]_vars

C8_LevelIsFunctionOfTriple ==
    Iterated =>
        /\ risk_status \in {NO_SUBJECT, ACTIVE, ALERT, MONITORING}
        /\ risk_status = NO_SUBJECT <=> ~human_present
        /\ risk_status = ACTIVE <=> human_present /\ motion
        /\ risk_status = ALERT <=>
              human_present /\ ~motion /\ time_without_motion > Threshold
        /\ risk_status = MONITORING <=>
              human_present /\ ~motion /\ time_without_motion <= Threshold

\* MONITORING in a run that was in ALERT before: the level followed the
\* triple, not the earlier level
C8_Witness ==
    /\ Iterated /\ human_present /\ ~motion
    /\ risk_status = MONITORING
    /\ alerts # <<>>

\* C9: in an iteration after which no detector call has been made yet, or the
\* last call reported no human, the level is NO_SUBJECT and no alert row is
\* appended, whatever the motion and the time without motion.
C9_NoSubjectDominates ==
    [][(IsIteration /\ last_sample' \in {"none", "absent"}) =>
         /\ risk_status' = NO_SUBJECT
         /\ alerts' = alerts]_vars

C9_Witness ==
    /\ Iterated
    /\ last_sample = "absent"
    /\ ~motion
    /\ time_without_motion > Threshold
    /\ risk_status = NO_SUBJECT
    /\ alerts = <<>>

\* C10: an iteration that does not call the detector leaves human_present
\* unchanged, equal to what the last call returned, and computes the level
\* from that value.
C10_StalePresenceCarries ==
    [][(IsIteration /\ detector_calls' = detector_calls) =>
         /\ human_present' = human_present
         /\ human_present' = (last_sample' = "present")
         /\ risk_status' \in {NO_SUBJECT, ACTIVE, ALERT, MONITORING}
         /\ risk_status' = NO_SUBJECT <=> ~human_present]_vars

\* the first ALERT of a run is computed between two detector calls
C10_Witness ==
    /\ Iterated
    /\ frame_count % SampleInterval # 0
    /\ last_sample = "present" /\ human_present
    /\ risk_status = ALERT
    /\ Len(alerts) = 1

\* C11: in an iteration with a human present and motion the level is ACTIVE
\* and last_motion_time becomes the time read in that iteration; an iteration
\* without motion leaves last_motion_time alone, so the time without motion
\* is measured from the last iteration with motion, and the level is ALERT
\* only when more than the threshold has passed since then.
C11_ActiveResetsClock ==
    [][IsIteration =>
         /\ (human_present' /\ motion') =>
               /\ risk_status' = ACTIVE
               /\ clock <= last_motion_time' /\ last_motion_time' <= clock'
         /\ ~motion' => last_motion_time' = last_motion_time
         /\ time_without_motion' = clock' - last_motion_time'
         /\ risk_status' = ALERT => clock' - last_motion_time' > Threshold]_vars

\* motion after an alert: the clock restarts
C11_Witness ==
    /\ Iterated /\ human_present /\ motion
    /\ risk_status = ACTIVE
    /\ alerts # <<>>
    /\ last_motion_time > AlertSeconds * hz

\* C12 (as claimed): a failing write of the alert never ends main(): no run
\* is left by the error of the sink.
C12_SinkFailureContained == ~(pc = "raised" /\ exc = "sqlite3.Error")

\* C13 (as claimed): a frame pair the differ cannot process never ends
\* main(): no run is left by the error of detect_motion.
C13_InputErrorContained == ~(pc = "raised" /\ exc = "cv2.error")

\* C14 (as claimed): when the detector does not return, main() is not stuck
\* in the call: it can take a further step.
C14_DetectorCallBounded == pc = "hung" => ENABLED Next

\* C15 (as claimed): main() ends only by the end of the stream or the quit
\* key, and without an error.
C15_EndsOnlyByEndOrStop ==
    pc \notin {"start", "loop", "hung"} => (pc \in {"stopped", "returned"} /\ exc = "none")

\* C16: an iteration in which winsound.Beep raises keeps the row it has just
\* appended, ends with no exception and goes on to read the next frame.
C16_BeepFailureSwallowed ==
    [][(IsIteration /\ notified' = "failed") =>
         /\ exc' = "none"
         /\ pc' \in {"loop", "stopped"}
         /\ Len(alerts') = Len(alerts) + 1
         /\ SubSeq(alerts', 1, Len(alerts)) = alerts
         /\ alerts'[Len(alerts')].details.status = risk_status']_vars

C16_Witness ==
    /\ notified = "failed"
    /\ pc = "loop"
    /\ exc = "none"
    /\ Len(alerts) >= 2

\* C17: every step leaves the stored rows in place and adds at most one row,
\* at the end; the rows carry ids 1, 2, ... and timestamps that never
\* decrease, the order in which they were written.
C17_AppendOnlyOrdered ==
    [][/\ Len(alerts') \in {Len(alerts), Len(alerts) + 1}
       /\ SubSeq(alerts', 1, Len(alerts)) = alerts
       /\ \A i \in 1 .. Len(alerts') : alerts'[i].id = i
       /\ \A i \in 1 .. Len(alerts') - 1 :
             alerts'[i].timestamp <= alerts'[i + 1].timestamp]_vars

C17_Witness ==
    /\ Len(alerts) = 3
    /\ \A i \in 1 .. 3 : alerts[i].id = i

\* the k rows written last, the last one first
NewestFirst(rows, k) ==
    [i \in 1 .. Min2(k, Len(rows)) |-> rows[Len(rows) + 1 - i]]

\* C18 (as claimed): a query returns the min(limit, n) rows appended last,
\* the most recently appended first, also among rows of equal timestamp.
C18_ListRecentNewestFirst ==
    [][recent' # recent => recent'.rows = NewestFirst(alerts, recent'.limit)]_vars

\* the grey-level difference of the two frames at pixel i
GrayDelta(i) == Abs(cvtColor(frame1)[i] - cvtColor(frame2)[i])

\* C19: for two identical frames detect_motion reports no motion.
C19_IdenticalFramesNoMotion ==
    (pc = "diffed" /\ frame1 = frame2) => ~motion

C19_Witness ==
    /\ pc = "diffed"
    /\ frame1 = frame2
    /\ frame1[1] = Blue /\ frame1[PixelWidth] = Grey(MotionThreshold + 1)
    /\ ~motion

\* C20 (as claimed): two frames of one size that differ, on a contiguous
\* block of pixels, by a grey-level difference of at least the motion
\* threshold give motion.
C20_BlockAtLeastThreshold ==
    (pc = "diffed"
       /\ \E lo \in 1 .. PixelWidth : \E hi \in lo .. PixelWidth :
             \A i \in lo .. hi : GrayDelta(i) >= MotionThreshold)
    => motion

\* C20 (amended): two frames of one size that differ, on a contiguous block
\* of pixels, by a grey-level difference strictly greater than the motion
\* threshold give motion.
C20_BlockAboveThreshold ==
    (pc = "diffed"
       /\ \E lo \in 1 .. PixelWidth : \E hi \in lo .. PixelWidth :
             \A i \in lo .. hi : GrayDelta(i) > MotionThreshold)
    => motion

\* a block of one pixel, the frames equal elsewhere
C20_Witness ==
    /\ pc = "diffed"
    /\ GrayDelta(1) > MotionThreshold
    /\ \A i \in 2 .. PixelWidth : frame1[i] = frame2[i]
    /\ motion

\* an Alert as the spec has it: the row without the id the table gave it
Content(row) ==
    [created_at |-> row.timestamp, alert_type |-> row.alert_type, details |-> row.details]

\* the alerts the call who has emitted, in order
Emitted(who) ==
    SelectSeq([i \in 1 .. Len(alerts) |-> <<emitter[i], Content(alerts[i])>>],
              LAMBDA z : z[1] = who)

\* C21: with a second call of main() running side by side, whatever it is
\* fed, the first call's position, counter, presence, motion clock and level are
\* at every step those of the same call run alone, and the alerts it has
\* emitted are those it emits alone.
C21_MonitorsIndependent ==
    pc # "start" =>
        /\ alone.m.pc = pc
        /\ alone.m.frame_count = frame_count
        /\ alone.m.human_present = human_present
        /\ alone.m.last_motion_time = last_motion_time
        /\ alone.m.risk_status = risk_status
        /\ Emitted("first") =
              [i \in 1 .. Len(alone.alerts) |-> <<"first", Content(alone.alerts[i])>>]

\* both calls have raised an alert, the second one first
C21_Witness ==
    /\ emitter = <<"second", "first">>
    /\ risk_status = ALERT
    /\ peer.risk_status = ALERT
    /\ alerts[2].id = 2
    /\ alone.alerts[1].id = 1

\* C22: the iteration in which waitKey sees 'q' is the last one: main() has
\* left the loop and released the capture, and from then on no frame is read
\* or diffed, no level computed, no detector call made and no row appended.
C22_StopIsImmediate ==
    [][/\ quit' => (pc' = "stopped" /\ cap' = "released")
       /\ quit => /\ frame_count' = frame_count
                  /\ delivered' = delivered
                  /\ detector_calls' = detector_calls
                  /\ risk_status' = risk_status
                  /\ alerts' = alerts
                  /\ cap' = "released"]_vars

\* the key seen in an iteration whose level is ALERT
C22_Witness ==
    /\ quit
    /\ pc = "stopped"
    /\ cap = "released"
    /\ risk_status = ALERT
    /\ Len(alerts) = 2

\* C23 (as claimed): an iteration appends one row iff its status is ALERT,
\* and otherwise none, so the rows stored are as many as the iterations
\* whose status was ALERT.
C23_RowIffAlert ==
    [][IsIteration =>
         /\ Len(alerts') \in {Len(alerts), Len(alerts) + 1}
         /\ Len(alerts') = Len(alerts) + 1 <=> risk_status' = ALERT
         /\ Len(alerts') = alert_iterations']_vars

\* C23 (amended): an iteration appends one row iff its status is ALERT and
\* the INSERT of log_alert does not raise, and otherwise none; the rows
\* stored are as many as the iterations whose status was ALERT, less the one
\* whose INSERT raised.
C23_RowIffAlertWritten ==
    [][IsIteration =>
         /\ Len(alerts') \in {Len(alerts), Len(alerts) + 1}
         /\ Len(alerts') = Len(alerts) + 1 <=>
               (risk_status' = ALERT /\ exc' # "sqlite3.Error")
         /\ Len(alerts') = alert_iterations' - (IF exc' = "sqlite3.Error" THEN 1 ELSE 0)]_vars

\* the third ALERT iteration of a run is the one whose INSERT raises
C23_Witness ==
    /\ pc = "raised"
    /\ exc = "sqlite3.Error"
    /\ risk_status = ALERT
    /\ alert_iterations = 3
    /\ Len(alerts) = 2

\* C24: an iteration with motion sets last_motion_time to the time read in
\* it, with or without a human present; an iteration without motion leaves it
\* alone, also when presence changes; so the iteration in which presence
\* becomes true without motion, more than the threshold after the last
\* motion, goes from NO_SUBJECT to ALERT.
C24_MotionAloneResetsClock ==
    [][IsIteration =>
         /\ motion' => (clock <= last_motion_time' /\ last_motion_time' <= clock')
         /\ ~motion' => last_motion_time' = last_motion_time
         /\ (~human_present /\ human_present' /\ ~motion'
               /\ clock' - last_motion_time' > Threshold)
            => /\ risk_status' = ALERT
               /\ frame_count > 0 => risk_status = NO_SUBJECT]_vars

\* the first detector call of a run finds a human, and the level is ALERT at once
C24_Witness ==
    /\ pc = "loop"
    /\ frame_count = SampleInterval
    /\ detector_calls = 1
    /\ risk_status = ALERT
    /\ alert_iterations = 1
    /\ Len(alerts) = 1

\* C25: after an iteration whose level is ALERT, an iteration without motion
\* in which the detector is not called, or is called and reports a human, has
\* level ALERT again, and its time without motion is not smaller.
C25_AlertIsStable ==
    [][(IsIteration /\ risk_status = ALERT /\ ~motion'
          /\ ~(detector_calls' = detector_calls + 1 /\ last_sample' = "absent"))
       => /\ risk_status' = ALERT
          /\ time_without_motion' >= time_without_motion]_vars

\* ALERT kept over a detector call that reports a human
C25_Witness ==
    /\ Iterated
    /\ frame_count = 2 * SampleInterval
    /\ detector_calls = 2
    /\ last_sample = "present"
    /\ risk_status = ALERT
    /\ alert_iterations >= 2

\* C26: during the first 29 iterations the detector has not been called,
\* human_present is false, the level is NO_SUBJECT and no row is written;
\* the 30th iteration makes the first call.
C26_WarmUp ==
    /\ frame_count < SampleInterval =>
          /\ detector_calls = 0
          /\ ~human_present
          /\ alerts = <<>>
          /\ alert_iterations = 0
          /\ Iterated => risk_status = NO_SUBJECT
    /\ (frame_count = SampleInterval /\ exc # "cv2.error") => detector_calls = 1

\* the 29th iteration: no motion for longer than the threshold, and no subject
C26_Witness ==
    /\ Iterated
    /\ frame_count = SampleInterval - 1
    /\ ~motion
    /\ time_without_motion > Threshold
    /\ risk_status = NO_SUBJECT

\* C27 (as claimed): iteration k diffs frames k and k + 1 of the stream; when
\* main() has left the loop the iterations are one less than the frames
\* delivered; a stream that delivers no second frame gives no iteration, no
\* detector call and no row.
C27_PairsAndCount ==
    [][/\ (frame_count' = frame_count + 1 /\ exc' # "cv2.error") =>
             (seq1 = frame_count' /\ seq2 = frame_count' + 1)
       /\ pc' = "stopped" => frame_count' = delivered' - 1
       /\ pc' = "returned" =>
             (frame_count' = 0 /\ detector_calls' = 0 /\ alerts' = <<>>)]_vars

\* C27 (amended): iteration k diffs frames k and k + 1 of the stream; the
\* iterations are one less than the frames delivered when the loop is left by
\* the end of the stream, and two less when it is left by the quit key, whose
\* iteration has read a frame that is never diffed; a stream that delivers no
\* second frame gives no iteration, no detector call and no row.
C27_PairsAndCountToEnd ==
    [][/\ (frame_count' = frame_count + 1 /\ exc' # "cv2.error") =>
             (seq1 = frame_count' /\ seq2 = frame_count' + 1)
       /\ pc' = "stopped" => frame_count' = delivered' - (IF quit' THEN 2 ELSE 1)
       /\ pc' = "returned" =>
             (frame_count' = 0 /\ detector_calls' = 0 /\ alerts' = <<>>)]_vars

\* a stream of three frames, played to its end
C27_Witness ==
    /\ pc = "stopped"
    /\ ~quit
    /\ delivered = 3
    /\ frame_count = 2

\* C28: detect_motion reports motion iff the grey levels of some pixel differ
\* by more than the motion threshold; the mask has a region after the
\* dilation iff it has one before.
C28_MotionIffSomePixelAbove ==
    pc = "diffed" =>
        /\ motion <=> \E i \in 1 .. PixelWidth : GrayDelta(i) > MotionThreshold
        /\ LET mask == threshold(absdiff(cvtColor(frame1), cvtColor(frame2)))
           IN  findContours(mask) > 0 <=> findContours(dilate(mask, DilateIterations)) > 0

\* the largest difference is the threshold itself
C28_Witness ==
    /\ pc = "diffed"
    /\ \E i \in 1 .. PixelWidth : GrayDelta(i) = MotionThreshold
    /\ \A i \in 1 .. PixelWidth : GrayDelta(i) <= MotionThreshold
    /\ ~motion

C30_CaptureReleased == pc \in {"returned", "stopped"} => cap = "released"

====
